---- MODULE Spec2Model ----
(***************************************************************************)
(* A model of grid_split: build_grid and slice_to_single of                *)
(* src/grid_split/core.py and the command line entry point of              *)
(* src/grid_split/cli.py.                                                  *)
(*                                                                         *)
(* Coordinates, steps and volumes are integers of one common unit, so the  *)
(* arithmetic of numpy.arange is exact in the model.  The exact boolean    *)
(* intersection, the volume of a fragment, the mesh loader and the scene   *)
(* exporter are library calls: their outcomes are nondeterministic.        *)
(***************************************************************************)
EXTENDS Integers, Sequences, FiniteSets, TLC

\* ---- bounds of the model ----
MaxExt == 2
MaxStep == 2
MaxCells == 2
MaxVol == 1

\* tol: float = 1e-6, in the model's volume unit
Tol == 1

Axes == 1..3

VARIABLES
  entry,      \* "cli": started through main(); "api": slice_to_single called directly
  args,       \* the parsed command line (argparse namespace)
  mesh,       \* the loaded (and repaired) mesh: vertices and faces
  size,       \* the requested cell size (sx, sy, sz)
  fallback,   \* the fallback parameter slice_to_single runs with
  progress,   \* TRUE when a progress callback was passed
  pc,         \* position in main / slice_to_single / build_grid
  bounds,     \* the (min, max) pair handed to build_grid
  cells,      \* the list build_grid returned
  total,      \* len(cells)
  idx,        \* the loop counter of enumerate(cells, 1)
  exact,      \* outcome of the try block for the current cell
  part,       \* the local variable part
  parts,      \* per processed cell, the value of part when it was filtered
  attempted,  \* the index triples of the cells the loop has taken, in order
  scene,      \* the geometries added to the scene, in order
  calls,      \* the (done, total) pairs the progress callback received
  exports,    \* number of completed scene.export calls
  err,        \* the exception that left slice_to_single / build_grid, if any
  tk          \* the GUI: its progress bar and the worker threads on_slice started

vars == <<entry, args, mesh, size, fallback, progress, pc, bounds, cells, total,
          idx, exact, part, parts, attempted, scene, calls, exports, err, tk>>

\* ---- helpers ----
Max0(n) == IF n > 0 THEN n ELSE 0

\* ceil(a / b) for b > 0
CeilDiv(a, b) == -((-a) \div b)

\* variant of ArangeLen: the stop value is included (as in a closed range)
ArangeLenInclusive(start, stop, step) ==
  IF step > 0 THEN Max0(((stop - start) \div step) + 1)
              ELSE Max0(((start - stop) \div (-step)) + 1)

\* len(np.arange(start, stop, step)) for step # 0: ceil((stop - start) / step),
\* never below 0
ArangeLen(start, stop, step) ==
  IF step > 0 THEN Max0(CeilDiv(stop - start, step))
              ELSE Max0(CeilDiv(start - stop, -step))

\* np.arange(start, stop, step): start + n*step for n = 0 .. len-1
Arange(start, stop, step) ==
  [n \in 1..ArangeLen(start, stop, step) |-> start + (n - 1) * step]

\* np.arange raises for a zero step
ArangeRaises(step) == step = 0

\* variant of Cuts: the stop value is max, without the extra step
CutsNoOvershoot(bnds, step, a) == Arange(bnds[1][a], bnds[2][a], step[a])

\* the cut coordinates of one axis: np.arange(min, max + step, step)
Cuts(bnds, step, a) == Arange(bnds[1][a], bnds[2][a] + step[a], step[a])

\* len(range(len(xs) - 1))
AxisCells(bnds, step, a) == Max0(Len(Cuts(bnds, step, a)) - 1)

\* build_grid raises when one of the three np.arange calls does
GridRaises(bnds, step) == \E a \in Axes : ArangeRaises(step[a])

NumCells(bnds, step) ==
  AxisCells(bnds, step, 1) * AxisCells(bnds, step, 2) * AxisCells(bnds, step, 3)

\* the cell appended in iteration (i, j, k) of the three nested loops
Cell(bnds, step, i, j, k) ==
  LET xs == Cuts(bnds, step, 1)
      ys == Cuts(bnds, step, 2)
      zs == Cuts(bnds, step, 3)
  IN  [cmin |-> <<xs[i + 1], ys[j + 1], zs[k + 1]>>,
       cmax |-> <<xs[i + 2], ys[j + 2], zs[k + 2]>>,
       idx  |-> <<i, j, k>>]

\* build_grid: x outermost, z innermost
build_grid(bnds, step) ==
  LET ny == AxisCells(bnds, step, 2)
      nz == AxisCells(bnds, step, 3)
  IN  [n \in 1..NumCells(bnds, step) |->
         Cell(bnds, step, (n - 1) \div (ny * nz), ((n - 1) \div nz) % ny, (n - 1) % nz)]

\* ---- the mesh ----
\* A tetrahedron with one corner at the origin and legs a, b, c along the axes:
\* mesh.vertices and mesh.faces (faces index the vertex list).
Tetra(a, b, c) ==
  [vertices |-> << <<0, 0, 0>>, <<a, 0, 0>>, <<0, b, 0>>, <<0, 0, c>> >>,
   faces    |-> << <<1, 2, 3>>, <<1, 2, 4>>, <<1, 3, 4>>, <<2, 3, 4>> >>]

MinOf(S) == CHOOSE x \in S : \A y \in S : x <= y
MaxOf(S) == CHOOSE x \in S : \A y \in S : x >= y

\* mesh.bounds: the axis-aligned bounding box of the vertices
MeshBounds(m) ==
  LET coord(a) == {m.vertices[n][a] : n \in 1..Len(m.vertices)}
  IN  << [a \in Axes |-> MinOf(coord(a))], [a \in Axes |-> MaxOf(coord(a))] >>

NoBounds == << <<0, 0, 0>>, <<0, 0, 0>> >>

\* part = None
NoPart == [some |-> FALSE, via |-> "none", faces |-> {}, verts |-> {}, vol |-> 0]

\* the result of trimesh.boolean.intersection: new geometry of volume v
ExactPart(v) == [some |-> TRUE, via |-> "exact", faces |-> {}, verts |-> {}, vol |-> v]

\* variant of Inside: the upper face of the box is excluded
InsideOpenMax(v, cell) ==
  \A a \in Axes : v[a] >= cell.cmin[a] /\ v[a] < cell.cmax[a]

\* one term of the np.logical_and.reduce: vertex v is inside the closed box
Inside(v, cell) ==
  \A a \in Axes : v[a] >= cell.cmin[a] /\ v[a] <= cell.cmax[a]

\* mask = inside[mesh.faces].all(axis=1)
Mask(m, cell) ==
  [f \in 1..Len(m.faces) |-> \A t \in 1..3 : Inside(m.vertices[m.faces[f][t]], cell)]

\* mesh.submesh([mask], append=True, repair=False): the masked faces and the
\* vertices they reference; v is the volume the library reports for it
FallbackPart(m, cell, v) ==
  LET kept == {f \in 1..Len(m.faces) : Mask(m, cell)[f]}
  IN  [some |-> TRUE, via |-> "fallback", faces |-> kept,
       verts |-> {m.faces[f][t] : f \in kept, t \in 1..3}, vol |-> v]

\* variant of Keeps: the comparison is strict
KeepsStrict(p) == p.some /\ p.vol > Tol

\* if part is not None and part.volume >= tol
Keeps(p) == p.some /\ p.vol >= Tol

\* variant of ProgressArgs: the loop counts from 0 (enumerate(cells))
ProgressArgsFromZero(i, t) == <<i - 1, t>>

\* the arguments of progress(idx, total)
ProgressArgs(i, t) == <<i, t>>

Volumes == 0..MaxVol

\* ---- the command line ----
\* parser.parse_args: --fallback has choices none|planar and default planar
ParseArgs(gui, complete, opt) ==
  [gui |-> gui, complete |-> complete,
   fallback |-> IF opt = "absent" THEN "planar" ELSE opt]

NoArgs == [gui |-> FALSE, complete |-> TRUE, fallback |-> "planar"]

Steps == (0 - 1)..MaxStep

\* no GUI was launched: prog is at its initial value and no worker exists
NoGui == [prog |-> [value |-> 0, maximum |-> 100], workers |-> <<>>]

\* The inputs of one run: a mesh file, a cell size and how the split is started.
\* Runs whose grid has more than MaxCells cells are left out.
Init ==
  /\ \E a \in 0..MaxExt, b \in 0..MaxExt, c \in 0..MaxExt :
       mesh = Tetra(a, b, c)
  /\ size \in Steps \X Steps \X Steps
  /\ IF GridRaises(MeshBounds(mesh), size)
       THEN TRUE
       ELSE NumCells(MeshBounds(mesh), size) <= MaxCells
  /\ \/ /\ entry = "api"
        /\ args = NoArgs
        /\ fallback \in {"none", "planar"}
        /\ progress = TRUE
        /\ pc = "load"
     \/ /\ entry = "cli"
        /\ \E g \in BOOLEAN, k \in BOOLEAN, opt \in {"absent", "none", "planar"} :
             /\ args = ParseArgs(g, k, opt)
             /\ (g \/ ~k) => (mesh = Tetra(1, 1, 1) /\ size = <<1, 1, 1>>)
        /\ fallback = "planar"
        /\ progress = FALSE
        /\ pc = "main"
  /\ bounds = NoBounds
  /\ cells = <<>>
  /\ total = 0
  /\ idx = 0
  /\ exact = "none"
  /\ part = NoPart
  /\ parts = <<>>
  /\ attempted = <<>>
  /\ scene = <<>>
  /\ calls = <<>>
  /\ exports = 0
  /\ err = "none"
  /\ tk = NoGui

\* ---- main() of cli.py ----
\* if args.gui: launch_gui(); return
MainGui ==
  /\ pc = "main" /\ args.gui
  /\ pc' = "gui"
  /\ UNCHANGED <<entry, args, mesh, size, fallback, progress, bounds, cells, total,
                 idx, exact, part, parts, attempted, scene, calls, exports, err, tk>>

\* parser.error("--input, --size, --merged required in CLI mode")
MainUsage ==
  /\ pc = "main" /\ ~args.gui /\ ~args.complete
  /\ pc' = "usage"
  /\ err' = "UsageError"
  /\ UNCHANGED <<entry, args, mesh, size, fallback, progress, bounds, cells, total,
                 idx, exact, part, parts, attempted, scene, calls, exports, tk>>

\* slice_to_single(args.input, tuple(args.size), args.merged, repair=args.repair):
\* fallback and progress are not passed and take their defaults
MainSlice ==
  /\ pc = "main" /\ ~args.gui /\ args.complete
  /\ fallback' = "planar"
  /\ progress' = FALSE
  /\ pc' = "load"
  /\ UNCHANGED <<entry, args, mesh, size, bounds, cells, total,
                 idx, exact, part, parts, attempted, scene, calls, exports, err, tk>>

\* ---- slice_to_single ----
\* mesh = trimesh.load_mesh(...), repaired when asked; scene = trimesh.Scene()
LoadMesh ==
  /\ pc = "load"
  /\ bounds' = MeshBounds(mesh)
  /\ scene' = <<>>
  /\ pc' = "grid"
  /\ UNCHANGED <<entry, args, mesh, size, fallback, progress, cells, total,
                 idx, exact, part, parts, attempted, calls, exports, err, tk>>

\* trimesh.load_mesh raises: the file is unreadable
LoadFail ==
  /\ pc = "load"
  /\ pc' = "fatal"
  /\ err' = "UnreadableMesh"
  /\ UNCHANGED <<entry, args, mesh, size, fallback, progress, bounds, cells, total,
                 idx, exact, part, parts, attempted, scene, calls, exports, tk>>

\* cells = build_grid(mesh.bounds, size); total = len(cells)
BuildGrid ==
  /\ pc = "grid"
  /\ ~GridRaises(bounds, size)
  /\ cells' = build_grid(bounds, size)
  /\ total' = Len(cells')
  /\ idx' = 0
  /\ pc' = "loop"
  /\ UNCHANGED <<entry, args, mesh, size, fallback, progress, bounds,
                 exact, part, parts, attempted, scene, calls, exports, err, tk>>

\* np.arange raises inside build_grid; nothing catches it
BuildGridRaise ==
  /\ pc = "grid"
  /\ GridRaises(bounds, size)
  /\ pc' = "fatal"
  /\ err' = "ArangeError"
  /\ UNCHANGED <<entry, args, mesh, size, fallback, progress, bounds, cells, total,
                 idx, exact, part, parts, attempted, scene, calls, exports, tk>>

\* for idx, (cmin, cmax, (ix, jy, kz)) in enumerate(cells, 1): take the next cell
LoopNext ==
  /\ pc = "loop"
  /\ idx < total
  /\ idx' = idx + 1
  /\ attempted' = Append(attempted, cells[idx'].idx)
  /\ pc' = "try"
  /\ UNCHANGED <<entry, args, mesh, size, fallback, progress, bounds, cells, total,
                 exact, part, parts, scene, calls, exports, err, tk>>

\* variant of LoopEnd: the loop stops one cell early
LoopEndEarly ==
  /\ pc = "loop"
  /\ idx >= total - 1
  /\ pc' = "export"
  /\ UNCHANGED <<entry, args, mesh, size, fallback, progress, bounds, cells, total,
                 idx, exact, part, parts, attempted, scene, calls, exports, err, tk>>

\* the loop is exhausted
LoopEnd ==
  /\ pc = "loop"
  /\ idx >= total
  /\ pc' = "export"
  /\ UNCHANGED <<entry, args, mesh, size, fallback, progress, bounds, cells, total,
                 idx, exact, part, parts, attempted, scene, calls, exports, err, tk>>

\* try: box = trimesh.creation.box(...); part = trimesh.boolean.intersection(...)
\* both calls succeed; the intersection has volume v
TryExactOk ==
  /\ pc = "try"
  /\ \E v \in Volumes : part' = ExactPart(v)
  /\ exact' = "ok"
  /\ pc' = "filter"
  /\ UNCHANGED <<entry, args, mesh, size, fallback, progress, bounds, cells, total,
                 idx, parts, attempted, scene, calls, exports, err, tk>>

\* trimesh.creation.box raises inside the try block
TryBoxFail ==
  /\ pc = "try"
  /\ exact' = "box_failed"
  /\ pc' = "except"
  /\ UNCHANGED <<entry, args, mesh, size, fallback, progress, bounds, cells, total,
                 idx, part, parts, attempted, scene, calls, exports, err, tk>>

\* variant of TryClipFail: the intersection is not inside a try block
TryClipFailUncaught ==
  /\ pc = "try"
  /\ exact' = "clip_failed"
  /\ pc' = "fatal"
  /\ err' = "ClipError"
  /\ UNCHANGED <<entry, args, mesh, size, fallback, progress, bounds, cells, total,
                 idx, part, parts, attempted, scene, calls, exports, tk>>

\* trimesh.boolean.intersection raises inside the try block
TryClipFail ==
  /\ pc = "try"
  /\ exact' = "clip_failed"
  /\ pc' = "except"
  /\ UNCHANGED <<entry, args, mesh, size, fallback, progress, bounds, cells, total,
                 idx, part, parts, attempted, scene, calls, exports, err, tk>>

\* except Exception: part = None, and fallback is not "planar"
ExceptNone ==
  /\ pc = "except"
  /\ fallback # "planar"
  /\ part' = NoPart
  /\ pc' = "filter"
  /\ UNCHANGED <<entry, args, mesh, size, fallback, progress, bounds, cells, total,
                 idx, exact, parts, attempted, scene, calls, exports, err, tk>>

\* except Exception: part = None; if fallback == "planar": part = mesh.submesh(...)
ExceptPlanar ==
  /\ pc = "except"
  /\ fallback = "planar"
  /\ \E v \in Volumes : part' = FallbackPart(mesh, cells[idx], v)
  /\ pc' = "filter"
  /\ UNCHANGED <<entry, args, mesh, size, fallback, progress, bounds, cells, total,
                 idx, exact, parts, attempted, scene, calls, exports, err, tk>>

\* the fallback extraction raises inside the except handler: nothing catches it
ExceptRaise ==
  /\ pc = "except"
  /\ fallback = "planar"
  /\ part' = NoPart
  /\ pc' = "fatal"
  /\ err' = "FallbackError"
  /\ UNCHANGED <<entry, args, mesh, size, fallback, progress, bounds, cells, total,
                 idx, exact, parts, attempted, scene, calls, exports, tk>>

\* f"chunk_{ix}_{jy}_{kz}": the three indices, in this order, after the prefix
ChunkName(cell) == <<"chunk", cell.idx[1], cell.idx[2], cell.idx[3]>>

\* if part is not None and part.volume >= tol: scene.add_geometry(part, node_name=...)
Filter ==
  /\ pc = "filter"
  /\ scene' = IF Keeps(part)
                THEN Append(scene, [name |-> ChunkName(cells[idx]), geom |-> part])
                ELSE scene
  /\ parts' = Append(parts, part)
  /\ pc' = "progress"
  /\ UNCHANGED <<entry, args, mesh, size, fallback, progress, bounds, cells, total,
                 idx, exact, part, attempted, calls, exports, err, tk>>

\* variant of FilterRaise: the error of part.volume is swallowed and the
\* fragment dropped
FilterRaiseSwallowed ==
  /\ pc = "filter"
  /\ part.some
  /\ parts' = Append(parts, NoPart)
  /\ pc' = "progress"
  /\ err' = "VolumeError"
  /\ UNCHANGED <<entry, args, mesh, size, fallback, progress, bounds, cells, total,
                 idx, exact, part, attempted, scene, calls, exports, tk>>

\* part.volume raises: nothing catches it
FilterRaise ==
  /\ pc = "filter"
  /\ part.some
  /\ pc' = "fatal"
  /\ err' = "VolumeError"
  /\ UNCHANGED <<entry, args, mesh, size, fallback, progress, bounds, cells, total,
                 idx, exact, part, parts, attempted, scene, calls, exports, tk>>

\* if progress: progress(idx, total).  The locals of the iteration are dead
\* afterwards and are reset here.
Progress ==
  /\ pc = "progress"
  /\ calls' = IF progress THEN Append(calls, ProgressArgs(idx, total)) ELSE calls
  /\ exact' = "none"
  /\ part' = NoPart
  /\ pc' = "loop"
  /\ UNCHANGED <<entry, args, mesh, size, fallback, progress, bounds, cells, total,
                 idx, parts, attempted, scene, exports, err, tk>>

\* the progress callback raises: nothing catches it
ProgressRaise ==
  /\ pc = "progress"
  /\ progress
  /\ pc' = "fatal"
  /\ err' = "ProgressError"
  /\ UNCHANGED <<entry, args, mesh, size, fallback, progress, bounds, cells, total,
                 idx, exact, part, parts, attempted, scene, calls, exports, tk>>

\* scene.export(merged_path)
Export ==
  /\ pc = "export"
  /\ exports' = exports + 1
  /\ pc' = "done"
  /\ UNCHANGED <<entry, args, mesh, size, fallback, progress, bounds, cells, total,
                 idx, exact, part, parts, attempted, scene, calls, err, tk>>

\* scene.export raises: the output cannot be written
ExportFail ==
  /\ pc = "export"
  /\ pc' = "fatal"
  /\ err' = "UnwritableOutput"
  /\ UNCHANGED <<entry, args, mesh, size, fallback, progress, bounds, cells, total,
                 idx, exact, part, parts, attempted, scene, calls, exports, tk>>

Next ==
  \/ MainGui \/ MainUsage \/ MainSlice
  \/ LoadMesh \/ LoadFail
  \/ BuildGrid \/ BuildGridRaise
  \/ LoopNext \/ LoopEnd
  \/ TryExactOk \/ TryBoxFail \/ TryClipFail
  \/ ExceptNone \/ ExceptPlanar \/ ExceptRaise
  \/ Filter \/ FilterRaise
  \/ Progress \/ ProgressRaise
  \/ Export \/ ExportFail

Spec == Init /\ [][Next]_vars

\* ---- build_grid as a pure function ----
MinCoords == {0, 1}

\* build_grid called on any bounds (also min > max) and any step
InitGrid ==
  /\ entry = "grid"
  /\ bounds \in (MinCoords \X MinCoords \X MinCoords)
                  \X ((0..MaxExt) \X (0..MaxExt) \X (0..MaxExt))
  /\ size \in Steps \X Steps \X Steps
  /\ pc = "grid"
  /\ args = NoArgs
  /\ mesh = Tetra(0, 0, 0)
  /\ fallback = "planar"
  /\ progress = FALSE
  /\ cells = <<>>
  /\ total = 0
  /\ idx = 0
  /\ exact = "none"
  /\ part = NoPart
  /\ parts = <<>>
  /\ attempted = <<>>
  /\ scene = <<>>
  /\ calls = <<>>
  /\ exports = 0
  /\ err = "none"
  /\ tk = NoGui

NextGrid == BuildGrid \/ BuildGridRaise

SpecGrid == InitGrid /\ [][NextGrid]_vars

\* ---- properties ----
ExactFailed == exact \in {"box_failed", "clip_failed"}

\* the loop has finished with the current cell (or has not taken one yet)
BetweenCells == pc \in {"loop", "export", "done"}

\* C1: in a run without a fatal error every cell of build_grid's list is taken
\* exactly once, in the list's order, and the progress callback is called once
\* per cell after the cell was processed: done is 1, 2, ..., total and total is
\* the number of cells in every call.
C1_ProgressOncePerCell ==
  /\ idx <= Len(cells)
  /\ attempted = [n \in 1..idx |-> cells[n].idx]
  /\ progress => calls = [n \in 1..Len(calls) |-> <<n, Len(cells)>>]
  /\ Len(calls) <= Len(parts)
  /\ BetweenCells => (Len(parts) = idx /\ (progress => Len(calls) = idx))
  /\ (progress /\ pc \in {"try", "except", "filter", "progress"})
       => Len(calls) = idx - 1
  /\ pc \in {"export", "done"} => /\ Len(attempted) = Len(cells)
                                  /\ progress => Len(calls) = Len(cells)

C1_Witness ==
  /\ pc = "done" /\ progress
  /\ calls = << <<1, 2>>, <<2, 2>> >>
  /\ Len(scene) = 1
  /\ ~parts[1].some

\* C2: the scene holds a geometry under a cell's name only if a fragment was
\* produced for that cell and its volume is >= tol; a fragment below tol is never
\* added and a produced fragment of volume >= tol is always added under the
\* name of its cell.
C2_ToleranceFilter ==
  /\ \A e \in 1..Len(scene) :
       \E n \in 1..Len(parts) :
         /\ scene[e].name = <<"chunk", cells[n].idx[1], cells[n].idx[2], cells[n].idx[3]>>
         /\ scene[e].geom = parts[n]
         /\ parts[n].some /\ parts[n].vol >= Tol
  /\ \A n \in 1..Len(parts) :
       LET named == {e \in 1..Len(scene) :
                       scene[e].name = <<"chunk", cells[n].idx[1], cells[n].idx[2],
                                         cells[n].idx[3]>>}
       IN  IF parts[n].some /\ parts[n].vol >= Tol
             THEN Cardinality(named) = 1
             ELSE named = {}

C2_Witness ==
  /\ Len(parts) = 2
  /\ parts[1].some /\ parts[1].vol < Tol
  /\ parts[2].some /\ parts[2].vol = Tol /\ parts[2].via = "fallback"
  /\ Len(scene) = 1

\* C3: the fallback extraction produces the part of a cell only when the try
\* block of that cell failed and fallback is planar; with fallback none a failed
\* cell has no fragment; the failure of the try block never ends the run, and
\* the cells after it are still processed.
C3_PerCellDegradation ==
  /\ [][ /\ (part'.via = "fallback" /\ part.via # "fallback")
              => (pc = "except" /\ ExactFailed /\ fallback = "planar")
         /\ (pc = "except" /\ fallback = "none")
              => (ExactFailed /\ part' = NoPart /\ pc' = "filter" /\ err' = err)
         /\ pc = "try" => (pc' \in {"filter", "except"} /\ err' = err)
         /\ (pc = "filter" /\ ExactFailed /\ fallback = "none" /\ pc' # "fatal")
              => (scene' = scene /\ pc' = "progress")
       ]_vars
  /\ [](pc = "done" => Len(parts) = Len(cells))

C3_Witness ==
  /\ pc = "done"
  /\ fallback = "none"
  /\ Len(parts) = 2
  /\ ~parts[1].some
  /\ parts[2].some

\* C4: the fallback mode given on the command line is the mode the split runs
\* with: started with --fallback none, no cell gets its part from the planar
\* fallback extraction.
C4_CliFallbackHonoured ==
  (entry = "cli" /\ args.fallback = "none") => part.via # "fallback"

\* ---- build_grid ----
PositiveStep == \A a \in Axes : size[a] > 0
ValidInput == PositiveStep /\ \A a \in Axes : bounds[1][a] <= bounds[2][a]
Extent(a) == bounds[2][a] - bounds[1][a]

\* build_grid has returned (slice_to_single may have gone on)
GridBuilt ==
  \/ pc \in {"loop", "try", "except", "filter", "progress", "export", "done"}
  \/ pc = "fatal" /\ err \notin {"UnreadableMesh", "ArangeError"}

\* C5: a step with a zero or negative component, or bounds with min > max on
\* some axis, make build_grid fail; it never returns a grid for such inputs.
C5_InvalidArgumentRejected ==
  (pc # "grid" /\ ~ValidInput) => (pc = "fatal" /\ cells = <<>>)

\* the union of the cells contains the bounds: the smallest cell minimum is min
\* and the largest cell maximum is >= max, on every axis
CoversBounds ==
  \A a \in Axes :
    /\ \E n \in 1..Len(cells) : cells[n].cmin[a] = bounds[1][a]
    /\ \A n \in 1..Len(cells) : cells[n].cmin[a] >= bounds[1][a]
    /\ \E n \in 1..Len(cells) : cells[n].cmax[a] >= bounds[2][a]

\* the number of cells is the product of (cut coordinates - 1) over the axes,
\* and the cells carry that many different index triples
CountIsProduct ==
  LET n(a) == Len(Cuts(bounds, size, a)) - 1
  IN  /\ Len(cells) = n(1) * n(2) * n(3)
      /\ {cells[m].idx : m \in 1..Len(cells)}
           = (0..(n(1) - 1)) \X (0..(n(2) - 1)) \X (0..(n(3) - 1))
      /\ \A m1, m2 \in 1..Len(cells) : cells[m1].idx = cells[m2].idx => m1 = m2

\* C6 as stated: for all valid (bounds, step) the cells returned cover the
\* bounds and their number is the product of (cut coordinates - 1).
C6_CoversAllValid ==
  (pc = "loop" /\ ValidInput) => (CoversBounds /\ CountIsProduct)

\* C6 amended: for all valid (bounds, step) the number of cells is the product
\* of (cut coordinates - 1); the cells cover the bounds when min < max on every
\* axis, and the grid is empty when min = max on some axis.
C6_CoversWhenExtentPositive ==
  (pc = "loop" /\ ValidInput) =>
    /\ CountIsProduct
    /\ (\A a \in Axes : Extent(a) > 0) => CoversBounds
    /\ (\E a \in Axes : Extent(a) = 0) => cells = <<>>

C6_Witness ==
  /\ pc = "loop" /\ ValidInput
  /\ bounds[1][2] = 1
  /\ Len(cells) = 2
  /\ \E n \in 1..Len(cells) : cells[n].cmax[2] > bounds[2][2]

\* C7 as stated: with a positive step, an axis whose extent is zero or smaller
\* than one step has zero cells, so the grid is empty and slice_to_single
\* processes no cell and makes no progress call.
C7_EmptyWhenExtentBelowStep ==
  (GridBuilt /\ PositiveStep /\ \E a \in Axes : Extent(a) < size[a])
    => (cells = <<>> /\ attempted = <<>> /\ calls = <<>>)

\* C7 amended: with a positive step, an axis of zero extent has zero cells: the
\* grid is empty, no error is raised, no cell is processed and no progress call
\* is made; an axis whose extent is positive and smaller than one step has
\* exactly one cell, [min, min + step].
C7_EmptyOnlyWhenExtentZero ==
  (GridBuilt /\ PositiveStep) =>
    /\ (\E a \in Axes : Extent(a) = 0)
         => /\ cells = <<>> /\ attempted = <<>> /\ calls = <<>> /\ parts = <<>>
            /\ pc \in {"loop", "export", "done", "fatal"}
            /\ pc = "fatal" => err = "UnwritableOutput"
    /\ (\A a \in Axes : Extent(a) > 0)
         => /\ cells # <<>>
            /\ \A a \in Axes : Extent(a) < size[a] =>
                 \A n \in 1..Len(cells) :
                   /\ cells[n].idx[a] = 0
                   /\ cells[n].cmin[a] = bounds[1][a]
                   /\ cells[n].cmax[a] = bounds[1][a] + size[a]

C7_Witness ==
  /\ pc = "done" /\ PositiveStep /\ progress
  /\ Extent(1) = 0
  /\ Extent(2) > 0 /\ Extent(2) < size[2]
  /\ cells = <<>> /\ calls = <<>>
  /\ exports = 1

\* C8: when the step equals the non-zero extent of the mesh on all three axes,
\* build_grid returns the single cell (0, 0, 0) from min to max, and a split
\* whose exact clip of it succeeds with volume >= tol ends with exactly one
\* fragment in the scene, named chunk_0_0_0.
C8_SingleCell ==
  (GridBuilt /\ \A a \in Axes : Extent(a) > 0 /\ size[a] = Extent(a)) =>
    /\ Len(cells) = 1
    /\ cells[1].idx = <<0, 0, 0>>
    /\ \A a \in Axes : cells[1].cmin[a] = bounds[1][a] /\ cells[1].cmax[a] = bounds[2][a]
    /\ (Len(parts) = 1 /\ parts[1].via = "exact" /\ parts[1].vol >= Tol)
         => (Len(scene) = 1 /\ scene[1].name = <<"chunk", 0, 0, 0>>)

C8_Witness ==
  /\ pc = "done" /\ exports = 1
  /\ \A a \in Axes : Extent(a) > 0 /\ size[a] = Extent(a)
  /\ Extent(1) # Extent(2)
  /\ Len(scene) = 1 /\ scene[1].geom.via = "exact"

\* an error has left main / slice_to_single
Aborted == pc \in {"fatal", "usage"}

\* C9 as stated: only a failure of the exact intersection is absorbed; a failure
\* of the box construction, of the fallback extraction or of the volume
\* evaluation ends the run: no later cell is processed and nothing is exported.
C9_OnlyClipFailureAbsorbed ==
  /\ [][ /\ (pc = "try" /\ exact' = "box_failed") => pc' = "fatal"
         /\ err' # err => Aborted'
         /\ ~Aborted
       ]_vars
  /\ [](pc = "fatal" => exports = 0)

\* C9 amended: a failure inside the try block, of the box construction or of the
\* exact intersection, is absorbed; a failure outside it (fallback extraction,
\* volume evaluation, progress callback) ends the run: no later cell is
\* processed and nothing is exported.
C9_FailureOutsideTryPropagates ==
  /\ [][ /\ (pc = "try" /\ exact' \in {"box_failed", "clip_failed"})
              => (pc' = "except" /\ err' = err)
         /\ err' # err
              => (Aborted' /\ UNCHANGED <<idx, attempted, parts, scene, calls, exports>>)
         /\ ~Aborted
       ]_vars
  /\ [](pc = "fatal" => exports = 0)

C9_Witness ==
  /\ pc = "fatal"
  /\ err = "FallbackError"
  /\ exact = "box_failed"
  /\ idx < total
  /\ exports = 0

\* C10: a part produced by the planar fallback for a cell consists of exactly
\* the faces of the mesh whose three vertices all lie in the closed box of the
\* cell, and every vertex of the part lies in that box.
InClosedBox(n, c) ==
  \A a \in Axes : c.cmin[a] <= mesh.vertices[n][a] /\ mesh.vertices[n][a] <= c.cmax[a]

FallbackExact(p, c) ==
  p.via = "fallback" =>
    /\ fallback = "planar"
    /\ \A f \in 1..Len(mesh.faces) :
         f \in p.faces <=> \A t \in 1..3 : InClosedBox(mesh.faces[f][t], c)
    /\ \A n \in p.verts : InClosedBox(n, c)
    /\ \A f \in p.faces : \A t \in 1..3 : mesh.faces[f][t] \in p.verts

C10_FallbackFacesInBox ==
  /\ \A n \in 1..Len(parts) : FallbackExact(parts[n], cells[n])
  /\ part.via = "fallback" => FallbackExact(part, cells[idx])
  /\ \A e \in 1..Len(scene) :
       \A n \in 1..Len(parts) :
         scene[e].name = ChunkName(cells[n]) => FallbackExact(scene[e].geom, cells[n])

C10_Witness ==
  \E e \in 1..Len(scene) :
    /\ scene[e].geom.via = "fallback"
    /\ Cardinality(scene[e].geom.faces) = 1
    /\ Cardinality(scene[e].geom.verts) = 3

\* C11: the scene is exported exactly once per invocation, and only after every
\* cell of the grid was attempted and its progress call made; a run that ended
\* with a fatal error has exported nothing.
C11_WriteOnceAfterAllCells ==
  /\ [][ exports' # exports =>
           /\ exports = 0 /\ exports' = 1
           /\ pc = "export" /\ pc' = "done"
           /\ idx = Len(cells)
           /\ Len(attempted) = Len(cells)
           /\ Len(parts) = Len(cells)
           /\ progress => Len(calls) = Len(cells)
       ]_vars
  /\ [](/\ exports <= 1
        /\ pc = "done" <=> exports = 1
        /\ pc = "fatal" => exports = 0)

C11_Witness ==
  /\ pc = "done" /\ exports = 1
  /\ progress
  /\ Len(parts) = 2 /\ Len(calls) = 2
  /\ ~parts[2].some

\* the values min + n*step, n = 0, 1, 2, ..., up to max + step, of axis a
Multiples(a) ==
  {bounds[1][a] + n * size[a] : n \in 0..(Extent(a) + size[a])}

\* the cut coordinates of axis a are the values of S in ascending order, and the
\* axis has one cell per adjacent pair of them
CutsAre(a, S) ==
  LET xs == Cuts(bounds, size, a)
  IN  /\ {xs[n] : n \in 1..Len(xs)} = S
      /\ \A n \in 1..(Len(xs) - 1) : xs[n] < xs[n + 1]
      /\ Len(xs) = 1 => cells = <<>>
      /\ cells # <<>> =>
           /\ {cells[m].idx[a] : m \in 1..Len(cells)} = 0..(Len(xs) - 2)
           /\ \A m \in 1..Len(cells) :
                /\ cells[m].cmin[a] = xs[cells[m].idx[a] + 1]
                /\ cells[m].cmax[a] = xs[cells[m].idx[a] + 2]

\* C12 as stated: on each axis the cut coordinates are the values min + n*step
\* that are <= max + step, max + step itself included when it is reached, and
\* the axis has (number of cut coordinates - 1) cells.
C12_CutsUpToMaxPlusStep ==
  (pc = "loop" /\ ValidInput) =>
    \A a \in Axes :
      CutsAre(a, {c \in Multiples(a) : c <= bounds[2][a] + size[a]})

\* C12 amended: on each axis the cut coordinates are the values min + n*step
\* that are < max + step, max + step itself excluded when it is reached, in
\* ascending order, and the axis has (number of cut coordinates - 1) cells.
C12_CutsBelowMaxPlusStep ==
  (pc = "loop" /\ ValidInput) =>
    \A a \in Axes :
      CutsAre(a, {c \in Multiples(a) : c < bounds[2][a] + size[a]})

C12_Witness ==
  /\ pc = "loop" /\ ValidInput
  /\ bounds[1][1] = 0 /\ Extent(1) = 2 /\ size[1] = 1
  /\ bounds[1][2] = 1 /\ Extent(2) = 1 /\ size[2] = 2
  /\ Len(cells) >= 2
  /\ \E m \in 1..Len(cells) : cells[m].cmin[1] = 1 /\ cells[m].cmax[1] = 2

\* ---- the GUI: on_slice and its worker threads (gui.py) ----
MaxClicks == 2

\* the state of one run of slice_to_single outside the GUI
SliceVars == <<entry, args, mesh, size, fallback, progress, pc, bounds, cells, total,
               idx, exact, part, parts, attempted, scene, calls, exports, err>>

Workers == 1..Len(tk.workers)

\* worker t is at position p
At(t, p) == tk.workers[t].pc = p

\* worker t moves to position p
Goto(t, p) == tk' = [tk EXCEPT !.workers[t].pc = p]

\* The window with the model file and the cell size typed in; no Slice yet.
InitGui ==
  /\ entry = "gui"
  /\ \E a \in 0..MaxExt : mesh = Tetra(a, 1, 1)
  /\ \E s \in 0..MaxStep : size = <<s, 1, 1>>
  /\ IF GridRaises(MeshBounds(mesh), size)
       THEN TRUE
       ELSE NumCells(MeshBounds(mesh), size) <= MaxCells
  /\ args = ParseArgs(TRUE, FALSE, "absent")
  /\ fallback = "planar"
  /\ progress = TRUE
  /\ pc = "gui"
  /\ bounds = NoBounds
  /\ cells = <<>>
  /\ total = 0
  /\ idx = 0
  /\ exact = "none"
  /\ part = NoPart
  /\ parts = <<>>
  /\ attempted = <<>>
  /\ scene = <<>>
  /\ calls = <<>>
  /\ exports = 0
  /\ err = "none"
  /\ tk = NoGui

\* on_slice: threading.Thread(target=worker, daemon=True).start(), whatever the
\* earlier workers are doing
OnSlice ==
  /\ Len(tk.workers) < MaxClicks
  /\ tk' = [tk EXCEPT !.workers = Append(@, [pc |-> "start", total |-> 0, idx |-> 0])]
  /\ UNCHANGED SliceVars

\* worker: read the entries, prog["value"] = 0, call slice_to_single
WStart(t) ==
  /\ At(t, "start")
  /\ tk' = [tk EXCEPT !.workers[t].pc = "load", !.prog.value = 0]
  /\ UNCHANGED SliceVars

\* slice_to_single: load the mesh, build the grid, total = len(cells)
WBuild(t) ==
  /\ At(t, "load")
  /\ ~GridRaises(MeshBounds(mesh), size)
  /\ tk' = [tk EXCEPT !.workers[t].pc = "loop",
                      !.workers[t].total = NumCells(MeshBounds(mesh), size),
                      !.workers[t].idx = 0]
  /\ UNCHANGED SliceVars

\* the for loop takes the next cell
WLoopNext(t) ==
  /\ At(t, "loop")
  /\ tk.workers[t].idx < tk.workers[t].total
  /\ tk' = [tk EXCEPT !.workers[t].pc = "try", !.workers[t].idx = @ + 1]
  /\ UNCHANGED SliceVars

\* the for loop is exhausted
WLoopEnd(t) ==
  /\ At(t, "loop")
  /\ tk.workers[t].idx >= tk.workers[t].total
  /\ Goto(t, "export")
  /\ UNCHANGED SliceVars

\* the box is built and trimesh.boolean.intersection is entered
WClipBegin(t) ==
  /\ At(t, "try")
  /\ Goto(t, "clipping")
  /\ UNCHANGED SliceVars

\* trimesh.boolean.intersection returns
WClipOk(t) ==
  /\ At(t, "clipping")
  /\ Goto(t, "filter")
  /\ UNCHANGED SliceVars

\* trimesh.boolean.intersection raises
WClipFail(t) ==
  /\ At(t, "clipping")
  /\ Goto(t, "except")
  /\ UNCHANGED SliceVars

\* except Exception: the planar fallback (the GUI passes no fallback argument)
WExcept(t) ==
  /\ At(t, "except")
  /\ Goto(t, "filter")
  /\ UNCHANGED SliceVars

\* the volume test and scene.add_geometry
WFilter(t) ==
  /\ At(t, "filter")
  /\ Goto(t, "progress")
  /\ UNCHANGED SliceVars

\* cb(d, t): prog.config(maximum=t, value=d)
WProgress(t) ==
  /\ At(t, "progress")
  /\ tk' = [tk EXCEPT !.workers[t].pc = "loop",
                      !.prog = [value |-> tk.workers[t].idx,
                                maximum |-> tk.workers[t].total]]
  /\ UNCHANGED SliceVars

\* scene.export(merged_path)
WExport(t) ==
  /\ At(t, "export")
  /\ Goto(t, "estimate")
  /\ UNCHANGED SliceVars

\* the print time estimate, messagebox.showinfo, prog["value"] = 0
WEstimate(t) ==
  /\ At(t, "estimate")
  /\ tk' = [tk EXCEPT !.workers[t].pc = "done", !.prog.value = 0]
  /\ UNCHANGED SliceVars

\* except Exception as e: messagebox.showerror, prog["value"] = 0, for an error
\* of float(), of the loader, of np.arange, of the fallback, of the volume or of
\* the export
WError(t) ==
  /\ \/ At(t, "start") \/ At(t, "load") \/ At(t, "except")
     \/ At(t, "filter") \/ At(t, "export") \/ At(t, "estimate")
  /\ tk' = [tk EXCEPT !.workers[t].pc = "error", !.prog.value = 0]
  /\ UNCHANGED SliceVars

NextGui ==
  \/ OnSlice
  \/ \E t \in Workers : WStart(t)
  \/ \E t \in Workers : WBuild(t)
  \/ \E t \in Workers : WLoopNext(t)
  \/ \E t \in Workers : WLoopEnd(t)
  \/ \E t \in Workers : WClipBegin(t)
  \/ \E t \in Workers : WClipOk(t)
  \/ \E t \in Workers : WClipFail(t)
  \/ \E t \in Workers : WExcept(t)
  \/ \E t \in Workers : WFilter(t)
  \/ \E t \in Workers : WProgress(t)
  \/ \E t \in Workers : WExport(t)
  \/ \E t \in Workers : WEstimate(t)
  \/ \E t \in Workers : WError(t)

SpecGui == InitGui /\ [][NextGui]_vars

\* C13: at any time at most one cell's exact intersection is in progress, also
\* when Slice is pressed again while an earlier split is still running.
C13_OneIntersectionAtATime ==
  Cardinality({t \in Workers : At(t, "clipping")}) <= 1

====
